---- MODULE Spec2Model ----
(***************************************************************************)
(* Model of chookee/ai_chat_bot: the bounded per-user context store        *)
(* (context_manager.py), the start-up provider selection and the message   *)
(* handlers (bot.py), the response extractor of genapi_client.py and one  *)
(* generate_response call of each provider client.                         *)
(*                                                                         *)
(* Seven specifications share the variables:                               *)
(*   StoreSpec    - a ContextManager(max_messages = N) driven by arbitrary *)
(*                  calls of its five methods, roles drawn from            *)
(*                  {system, user, assistant};                             *)
(*   Spec         - the bot process: client construction, provider         *)
(*                  selection, then message and clear handlers running as  *)
(*                  cooperative tasks over ContextManager(max_messages=20);*)
(*   DialogSpec   - the handlers of the running bot over a context that    *)
(*                  already holds a conversation of up to MaxTalk answered *)
(*                  utterances, so that eviction at 20 messages happens;   *)
(*   SelectorSpec - the selection block of bot.py applied to every         *)
(*                  combination of AI_PROVIDER and client availability.    *)
(*   ExtractSpec  - _extract_text_from_output applied to decoded payloads; *)
(*   CallSpec     - one generate_response call against every outcome of    *)
(*                  its outbound requests, with a discrete clock;          *)
(*   CallFairSpec - CallSpec with the call's thread always making progress.*)
(***************************************************************************)
EXTENDS Integers, Sequences, FiniteSets, TLC

VARIABLES
    contexts,       \* ContextManager.contexts: user_id -> list of messages
    max_messages,   \* ContextManager.max_messages
    history,        \* ghost: per user, the messages appended since the last clear
    cleared,        \* ghost: users cleared and not touched by add/get since
    lastOp,         \* ghost: the last store call and what it returned
    nAdds,          \* ghost: number of add_message calls made so far
    phase,          \* position of bot.py's module-level code
    AI_PROVIDER,    \* config.AI_PROVIDER: the explicit provider key, or None
    apiKeys,        \* providers whose API key is set in the environment
    clients,        \* the five module-level *_client variables
    active_provider,\* bot._active_provider: <<key, name, client>>, <<>> for None
    startupError,   \* the RuntimeError raised by the module-level code, if any
    tasks,          \* handler tasks: in the provider call or at an awaited answer
    sent,           \* texts delivered to users, in order
    requests,       \* ghost: the generate_response calls made, in order
    returned,       \* ghost: what those calls returned to handle_message, in order
    nUpdates,       \* ghost: number of updates dispatched so far
    raw,            \* the argument of _extract_text_from_output
    extracted,      \* what _extract_text_from_output returned
    cpc,            \* position inside one generate_response call
    callee,         \* the client class whose generate_response is running
    poll_interval,  \* GenAPIClient.poll_interval
    poll_max_wait,  \* GenAPIClient.poll_max_wait
    now,            \* time.monotonic()
    deadline,       \* the local deadline of _poll_until_done
    submitResp,     \* the outcome of the generation request
    lastResp,       \* the outcome of the latest status GET
    result,         \* what generate_response returned (or that it raised)
    pollStart,      \* ghost: the time _poll_until_done was entered
    getStart,       \* ghost: the time the latest status GET was started
    nPost,          \* ghost: generation requests issued by the call
    nGet,           \* ghost: status GETs issued by the call
    nErr,           \* ghost: status GETs that raised
    logged          \* the last message the call wrote to the log

storeVars == <<contexts, max_messages, history, cleared, lastOp, nAdds>>

startVars == <<phase, AI_PROVIDER, apiKeys, clients, active_provider,
               startupError>>

handlerVars == <<tasks, sent, requests, returned, nUpdates>>

extractVars == <<raw, extracted>>

callVars == <<cpc, callee, poll_interval, poll_max_wait, now, deadline,
              submitResp, lastResp, result, pollStart, getStart, nPost, nGet,
              nErr, logged>>

clientVars == <<extractVars, callVars>>

vars == <<contexts, max_messages, history, cleared, lastOp, nAdds,
          phase, AI_PROVIDER, apiKeys, clients, active_provider,
          startupError, tasks, sent, requests, returned,
          nUpdates,
          raw, extracted, cpc, callee, poll_interval, poll_max_wait, now,
          deadline, submitResp, lastResp, result, pollStart, getStart, nPost,
          nGet, nErr, logged>>

----------------------------------------------------------------------------
(* Bounds *)

MaxN == 2           \* StoreSpec: max_messages ranges over 1..MaxN
MaxAppends == 4     \* StoreSpec: at most this many add_message calls
MaxUpdates == 2     \* Spec: at most this many updates are dispatched
MaxTasks == 2       \* Spec: at most this many handler tasks are suspended

Users == {101, 202}
Roles == {"system", "user", "assistant"}

None == "None"

Min(a, b) == IF a < b THEN a ELSE b
Max(a, b) == IF a > b THEN a ELSE b

----------------------------------------------------------------------------
(* Python list helpers *)

\* s[i:] for a Python list s and an int i (negative i counts from the end,
\* out-of-range i is clamped).
SliceFrom(s, i) ==
    LET start == IF i < 0 THEN Max(Len(s) + i, 0) ELSE Min(i, Len(s))
    IN  SubSeq(s, start + 1, Len(s))

IsSystem(m) == m.role = "system"
NotSystem(m) == m.role # "system"

----------------------------------------------------------------------------
(* ContextManager (context_manager.py).  Each method is an operator from   *)
(* the store (and arguments) to [store |-> the store after, result |-> the *)
(* returned value].                                                        *)

EmptyStore == [x \in {} |-> <<>>]

Put(ctxs, u, seq) ==
    [x \in (DOMAIN ctxs) \cup {u} |-> IF x = u THEN seq ELSE ctxs[x]]

Remove(ctxs, u) ==
    [x \in (DOMAIN ctxs) \ {u} |-> ctxs[x]]

\* self.contexts[user_id] after the lazy creation at lines 27-28 / 40-41
Entry(ctxs, u) == IF u \in DOMAIN ctxs THEN ctxs[u] ELSE <<>>

get_context(ctxs, u) ==
    LET created == IF u \notin DOMAIN ctxs THEN Put(ctxs, u, <<>>) ELSE ctxs
    IN  [store |-> created, result |-> created[u]]

\* Mutation of Trim: keeps the newest max_messages messages of the whole list,
\* whatever their role.
Trim_newest(ctx, maxm) ==
    IF Len(ctx) > maxm THEN SliceFrom(ctx, -maxm) ELSE ctx

\* Mutation of Trim: keeps the oldest max_messages messages.
Trim_oldest(ctx, maxm) ==
    IF Len(ctx) > maxm THEN SubSeq(ctx, 1, maxm) ELSE ctx

\* lines 49-65: the trimming applied after the append
Trim(ctx, maxm) ==
    IF Len(ctx) > maxm
    THEN LET system_messages == SelectSeq(ctx, IsSystem)
             other_messages  == SelectSeq(ctx, NotSystem)
             kept == IF Len(other_messages) > maxm
                     THEN SliceFrom(other_messages,
                                    -(maxm - Len(system_messages)))
                     ELSE other_messages
         IN  system_messages \o kept
    ELSE ctx

\* Mutation of add_message: the message is put in front of the list.
add_message_front(ctxs, maxm, u, role, content) ==
    [store |-> Put(ctxs, u, Trim(<<[role |-> role, content |-> content]>>
                                    \o Entry(ctxs, u), maxm)),
     result |-> None]

add_message(ctxs, maxm, u, role, content) ==
    LET appended == Append(Entry(ctxs, u), [role |-> role, content |-> content])
    IN  [store |-> Put(ctxs, u, Trim(appended, maxm)), result |-> None]

\* Mutation of clear_context: resets the entry to an empty list instead of
\* deleting it.
clear_context_reset(ctxs, u) ==
    [store |-> IF u \in DOMAIN ctxs THEN Put(ctxs, u, <<>>) ELSE ctxs,
     result |-> None]

clear_context(ctxs, u) ==
    [store |-> IF u \in DOMAIN ctxs THEN Remove(ctxs, u) ELSE ctxs,
     result |-> None]

get_user_ids(ctxs) ==
    [store |-> ctxs, result |-> DOMAIN ctxs]

\* Mutation of get_context_length: measures len(self.get_context(user_id)),
\* which creates the entry.
get_context_length_lazy(ctxs, u) ==
    [store |-> Put(ctxs, u, Entry(ctxs, u)), result |-> Len(Entry(ctxs, u))]

get_context_length(ctxs, u) ==
    [store |-> ctxs, result |-> Len(Entry(ctxs, u))]

----------------------------------------------------------------------------
(* Provider clients and their selection (bot.py, module level) *)

ProviderKeys == {"ollama", "openai", "deepseek", "genapi", "proxyapi"}

\* the providers whose constructor needs an API key
CredentialKeys == {"openai", "deepseek", "genapi", "proxyapi"}

\* the values AI_PROVIDER can have after config.py's strip().lower() or None
ExplicitKeys == {None} \cup ProviderKeys \cup {"bogus"}

\* the order of the list iterated at bot.py lines 98-104
PriorityOrder == <<"ollama", "openai", "deepseek", "genapi", "proxyapi">>

\* the display names of provider_map (lines 77-83) and of the list (98-104)
ProviderName ==
    [ollama |-> "Ollama", openai |-> "OpenAI", deepseek |-> "DeepSeek",
     genapi |-> "GenAPI", proxyapi |-> "ProxyAPI"]

\* the client object each constructor yields
ClientObject ==
    [ollama |-> "OllamaClient", openai |-> "OpenAIClient",
     deepseek |-> "DeepSeekClient", genapi |-> "GenAPIClient",
     proxyapi |-> "ProxyAPIClient"]

NoClients == [k \in ProviderKeys |-> None]

\* Mutation of new_client: every constructor, OllamaClient included, raises
\* without an API key.
new_client_needs_key(k, keys) == IF k \in keys THEN ClientObject[k] ELSE None

\* One try/except block of lines 44-72: the variable holds the client, or
\* stays None when the constructor raised.  OllamaClient.__init__ only stores
\* its two arguments; the other constructors raise ValueError without a key.
new_client(k, keys) ==
    IF k = "ollama" THEN ClientObject[k]
    ELSE IF k \in keys THEN ClientObject[k]
    ELSE None

\* Mutation of select_provider: an explicit key whose client is missing falls
\* back to the priority order.
select_provider_fallback(explicit, cl) ==
    LET avail == {i \in 1..Len(PriorityOrder) : cl[PriorityOrder[i]] # None}
        first == PriorityOrder[CHOOSE i \in avail : \A j \in avail : i <= j]
    IN  IF explicit \in ProviderKeys /\ cl[explicit] # None
        THEN [active |-> <<explicit, ProviderName[explicit], cl[explicit]>>,
              error |-> None]
        ELSE IF avail = {}
        THEN [active |-> <<>>, error |-> "NoProviderAvailable"]
        ELSE [active |-> <<first, ProviderName[first], cl[first]>>,
              error |-> None]

\* Mutation of select_provider: the loop over the priority list has no break,
\* so the last constructible provider wins.
select_provider_last(explicit, cl) ==
    LET avail == {i \in 1..Len(PriorityOrder) : cl[PriorityOrder[i]] # None}
        last  == PriorityOrder[CHOOSE i \in avail : \A j \in avail : i >= j]
    IN  IF explicit # None
        THEN IF explicit \in ProviderKeys /\ cl[explicit] # None
             THEN [active |-> <<explicit, ProviderName[explicit], cl[explicit]>>,
                   error |-> None]
             ELSE IF explicit \notin ProviderKeys
             THEN [active |-> <<>>, error |-> "UnknownProviderKey"]
             ELSE [active |-> <<>>, error |-> "NoProviderAvailable"]
        ELSE IF avail = {}
        THEN [active |-> <<>>, error |-> "NoProviderAvailable"]
        ELSE [active |-> <<last, ProviderName[last], cl[last]>>, error |-> None]

\* Lines 75-113.  The result is the value of _active_provider and the
\* RuntimeError raised, named after the failure kinds of the message texts:
\*   line 90  "AI_PROVIDER must be one of ..."          UnknownProviderKey
\*   line 93  "provider ... could not be initialised"   ProviderNotConstructible
\*   line 111 "none of the AI clients is available"     NoProviderAvailable
\* The raise of line 93 follows the raise of line 90 inside the same if
\* block, so it is never executed: a recognised key whose client is None
\* leaves _active_provider None and reaches the raise of line 111.
select_provider(explicit, cl) ==
    IF explicit # None
    THEN LET known  == explicit \in ProviderKeys
             name   == IF known THEN ProviderName[explicit] ELSE None
             client == IF known THEN cl[explicit] ELSE None
         IN  IF client # None
             THEN [active |-> <<explicit, name, client>>, error |-> None]
             ELSE IF ~known
             THEN [active |-> <<>>, error |-> "UnknownProviderKey"]
             ELSE [active |-> <<>>, error |-> "NoProviderAvailable"]
    ELSE LET avail == {i \in 1..Len(PriorityOrder) :
                            cl[PriorityOrder[i]] # None}
             key   == PriorityOrder[CHOOSE i \in avail : \A j \in avail : i <= j]
         IN  IF avail = {}
             THEN [active |-> <<>>, error |-> "NoProviderAvailable"]
             ELSE [active |-> <<key, ProviderName[key], cl[key]>>,
                   error |-> None]

----------------------------------------------------------------------------
(* Handlers (bot.py) *)

BotMaxMessages == 20    \* ContextManager(max_messages=20)

\* message.text values; the clear phrase stands for the Russian phrase of
\* line 154
Utterances == {" hi ", " Clear Context "}

ClearPhrase == "clear context"

\* str.strip() and str.lower() on the utterances
Strip(t) ==
    CASE t = " hi " -> "hi"
      [] t = " Clear Context " -> "Clear Context"
      [] OTHER -> t

Lower(t) ==
    CASE t = "Clear Context" -> "clear context"
      [] OTHER -> t

\* what a client's generate_response can return: None, an empty text, a text
Responses == {None, "", "hello"}

\* Mutation of Truthy: only None counts as no response.
Truthy_not_none(r) == r # None

\* Python truth value of an Optional[str]
Truthy(r) == r # None /\ r # ""

\* the fixed texts of lines 134, 138, 156, 214 and 223
ClearedText == "context cleared"
ClearErrorText == "error while clearing"
ApologyText == "generation error, try again"

Free == [pc |-> "free"]

Awaiting(kind, u, text) ==
    [pc |-> "await", kind |-> kind, user |-> u, text |-> text]

\* handle_message between its two appends: the user message is in the
\* context and client.generate_response is being executed
Calling(u, text) ==
    [pc |-> "call", kind |-> "message", user |-> u, text |-> text]

FreeSlots == {i \in 1..MaxTasks : tasks[i].pc = "free"}

\* Mutation of provider_call_suspends: the provider call is awaited, so the
\* event loop runs other handlers during it.
provider_call_suspends_awaited == TRUE

\* lines 168-204: client.generate_response is an ordinary call (the poll loop
\* of GenAPIClient sleeps with time.sleep), not an awaited one
provider_call_suspends == FALSE

\* the event loop can run a handler: no handler is inside a call that keeps
\* the loop's thread
LoopFree ==
    \A i \in 1..MaxTasks : tasks[i].pc = "call" => provider_call_suspends

\* Mutation of failure_store: the apology is recorded as an assistant message.
failure_store_appends(ctxs, maxm, u) ==
    add_message(ctxs, maxm, u, "assistant", ApologyText).store

\* Mutation of failure_store: the user message of the failed utterance is
\* taken out of the context again.
failure_store_rollback(ctxs, maxm, u) ==
    Put(ctxs, u, SubSeq(ctxs[u], 1, Len(ctxs[u]) - 1))

\* lines 212-216: the else branch calls no ContextManager method
failure_store(ctxs, maxm, u) == ctxs

\* the slot a new handler task occupies
NewSlot == CHOOSE i \in FreeSlots : \A j \in FreeSlots : i <= j

\* Mutation of handler_client: the handler uses the module-level
\* ollama_client instead of the selected client.
handler_client_ollama(active) == ClientObject["ollama"]

\* line 165: _key, provider_name, client = _active_provider
handler_client(active) == active[3]

----------------------------------------------------------------------------
(* Decoded JSON values and Python strings.  A value is [t |-> tag, v |-> *)
(* payload]; a string is the sequence of its characters.                  *)

MaxItems == 2       \* ExtractSpec: lists of mappings have at most this many items

JNull == [t |-> "null", v |-> 0]
JNum(n) == [t |-> "num", v |-> n]
JBool(b) == [t |-> "bool", v |-> b]
JStr(s) == [t |-> "str", v |-> s]
JList(items) == [t |-> "list", v |-> items]
JDict(f) == [t |-> "dict", v |-> f]

\* an exception leaving the function instead of a returned value
Raised == [t |-> "raised", v |-> 0]

\* extraction or call not finished yet
Pending == [t |-> "pending", v |-> 0]

TextWord == <<"t", "e", "x", "t">>
AssistantWord == <<"a", "s", "s", "i", "s", "t", "a", "n", "t">>
UserWord == <<"u", "s", "e", "r">>
ImageWord == <<"i", "m", "a", "g", "e">>

\* bool(x) of a decoded value
JTruthy(x) ==
    CASE x.t = "null" -> FALSE
      [] x.t = "bool" -> x.v
      [] x.t = "num"  -> x.v # 0
      [] x.t = "str"  -> x.v # <<>>
      [] x.t = "list" -> x.v # <<>>
      [] x.t = "dict" -> DOMAIN x.v # {}

\* a or b
PyOr(a, b) == IF JTruthy(a) THEN a ELSE b

\* d.get(k) on a dict d
DictGet(d, k) == IF k \in DOMAIN d.v THEN d.v[k] ELSE JNull

\* x.get(k) on any value: AttributeError unless x is a dict
PyGet(x, k) == IF x.t = "dict" THEN DictGet(x, k) ELSE Raised

RECURSIVE LStrip(_)
LStrip(s) == IF s # <<>> /\ Head(s) = " " THEN LStrip(Tail(s)) ELSE s

RECURSIVE RStrip(_)
RStrip(s) ==
    IF s # <<>> /\ s[Len(s)] = " " THEN RStrip(SubSeq(s, 1, Len(s) - 1)) ELSE s

\* s.strip()
str_strip(s) == RStrip(LStrip(s))

\* s.strip() or None
StripOrNone(s) == IF str_strip(s) = <<>> THEN JNull ELSE JStr(str_strip(s))

Digits == <<"0", "1", "2", "3", "4", "5", "6", "7", "8", "9">>

\* str(x) (numbers are 0..9); the repr of a list or of a dict is cut down to its brackets
PyStr(x) ==
    CASE x.t = "str"  -> x.v
      [] x.t = "null" -> <<"N", "o", "n", "e">>
      [] x.t = "bool" -> IF x.v THEN <<"T", "r", "u", "e">>
                         ELSE <<"F", "a", "l", "s", "e">>
      [] x.t = "num"  -> <<Digits[x.v + 1]>>
      [] x.t = "list" -> <<"[", "]">>
      [] x.t = "dict" -> <<"{", "}">>

\* Mutation of JoinSpace: the first element alone.
JoinSpace_first(items) == PyStr(items[1])

\* " ".join(str(x) for x in items)
RECURSIVE JoinSpace(_)
JoinSpace(items) ==
    IF items = <<>> THEN <<>>
    ELSE IF Len(items) = 1 THEN PyStr(items[1])
    ELSE PyStr(items[1]) \o <<" ">> \o JoinSpace(Tail(items))

----------------------------------------------------------------------------
(* _extract_text_from_output (genapi_client.py lines 31-93).  A loop body  *)
(* yields Return(value) when it executes a return statement and Continue   *)
(* when the loop goes on.                                                  *)

Return(x) == [ret |-> TRUE, val |-> x]
Continue == [ret |-> FALSE, val |-> JNull]

\* the loops of lines 53-57, 65-69 and 87-91 over the parts of a list
RECURSIVE first_text_part(_)
first_text_part(parts) ==
    IF parts = <<>> THEN Continue
    ELSE LET part == Head(parts)
             ty == IF part.t = "dict" THEN DictGet(part, "type") ELSE JNull
             t  == IF part.t = "dict" THEN DictGet(part, "text") ELSE JNull
         IN  IF part.t = "dict" /\ ty.t = "str" /\ ty.v = TextWord
                  /\ t.t = "str"
             THEN Return(StripOrNone(t.v))
             ELSE first_text_part(Tail(parts))

\* lines 42-57: the body of the first loop for one item
first_pass_item(item) ==
    IF item.t # "dict" THEN Continue
    ELSE LET msg  == DictGet(item, "message")
             c    == IF msg.t = "dict" THEN DictGet(msg, "content") ELSE JNull
             text == PyOr(DictGet(item, "text"), DictGet(item, "content"))
         IN  IF msg.t = "dict" /\ c.t = "str" THEN Return(StripOrNone(c.v))
             ELSE IF text.t = "str" THEN Return(StripOrNone(text.v))
             ELSE IF text.t = "list" THEN first_text_part(text.v)
             ELSE Continue

\* lines 60-69: the body of the second loop for one item
second_pass_item(item) ==
    IF item.t = "dict" /\ DictGet(item, "role").t = "str"
          /\ DictGet(item, "role").v = AssistantWord
    THEN LET c == DictGet(item, "content")
         IN  IF c.t = "str" THEN Return(StripOrNone(c.v))
             ELSE IF c.t = "list" THEN first_text_part(c.v)
             ELSE Continue
    ELSE Continue

\* lines 41-57
RECURSIVE first_pass(_)
first_pass(items) ==
    IF items = <<>> THEN Continue
    ELSE IF first_pass_item(Head(items)).ret THEN first_pass_item(Head(items))
    ELSE first_pass(Tail(items))

\* lines 59-69
RECURSIVE second_pass(_)
second_pass(items) ==
    IF items = <<>> THEN Continue
    ELSE IF second_pass_item(Head(items)).ret THEN second_pass_item(Head(items))
    ELSE second_pass(Tail(items))

\* lines 37-70
extract_from_list(items) ==
    IF items # <<>> /\ items[1].t = "str"
    THEN StripOrNone(JoinSpace(items))
    ELSE IF first_pass(items).ret THEN first_pass(items).val
    ELSE IF second_pass(items).ret THEN second_pass(items).val
    ELSE JNull

\* Mutation of choices_message: choices[0].get("message") without the
\* isinstance(choices[0], dict) test.
choices_message_unchecked(choices) == PyGet(choices.v[1], "message")

\* line 79, for a non-empty list choices
choices_message(choices) ==
    IF choices.v[1].t = "dict" THEN PyGet(choices.v[1], "message") ELSE JNull

\* line 73
direct_field(output) ==
    PyOr(PyOr(DictGet(output, "text"), DictGet(output, "content")),
         DictGet(output, "message"))

\* lines 71-92
extract_from_dict(output) ==
    LET text    == direct_field(output)
        choices == DictGet(output, "choices")
        msg     == IF choices.t = "list" /\ choices.v # <<>>
                   THEN choices_message(choices) ELSE JNull
        c       == IF msg.t = "dict" THEN DictGet(msg, "content") ELSE JNull
        content == DictGet(output, "content")
    IN  IF text.t = "str" THEN StripOrNone(text.v)
        ELSE IF msg.t = "raised" THEN Raised
        ELSE IF msg.t = "dict" /\ c.t = "str" THEN StripOrNone(c.v)
        ELSE IF content.t = "list" /\ first_text_part(content.v).ret
        THEN first_text_part(content.v).val
        ELSE JNull

\* lines 31-93
extract_text_from_output(output) ==
    CASE output.t = "null" -> JNull
      [] output.t = "str"  -> StripOrNone(output.v)
      [] output.t = "list" -> extract_from_list(output.v)
      [] output.t = "dict" -> extract_from_dict(output)
      [] OTHER -> JNull

\* no extraction and no generate_response call in progress
ExtractIdle ==
    /\ raw = JNull
    /\ extracted = Pending

CallIdle ==
    /\ cpc = "off"
    /\ callee = None
    /\ poll_interval = 0
    /\ poll_max_wait = 0
    /\ now = 0
    /\ deadline = 0
    /\ submitResp = Pending
    /\ lastResp = Pending
    /\ result = Pending
    /\ pollStart = 0
    /\ getStart = 0
    /\ nPost = 0
    /\ nGet = 0
    /\ nErr = 0
    /\ logged = None

ClientsIdle == ExtractIdle /\ CallIdle

----------------------------------------------------------------------------
(* StoreSpec: a client calling the ContextManager methods in any order.    *)

\* ghost: the size of the user's entry before a call, -1 when absent
PreLen(ctxs, u) == IF u \in DOMAIN ctxs THEN Len(ctxs[u]) ELSE -1

NoOp == [op |-> "none", user |-> 0, result |-> None, pre |-> -1]

StoreInit ==
    /\ contexts = EmptyStore
    /\ max_messages \in 1..MaxN
    /\ history = [u \in Users |-> <<>>]
    /\ cleared = {}
    /\ lastOp = NoOp
    /\ nAdds = 0
    /\ phase = "off"
    /\ AI_PROVIDER = None
    /\ apiKeys = {}
    /\ clients = NoClients
    /\ active_provider = <<>>
    /\ startupError = None
    /\ tasks = [i \in 1..MaxTasks |-> Free]
    /\ sent = <<>>
    /\ requests = <<>>
    /\ returned = <<>>
    /\ nUpdates = 0
    /\ ClientsIdle

\* add_message(u, role, content); each call carries a fresh content (its
\* sequence number), so that every appended message can be told apart.
AddMessage ==
    /\ nAdds < MaxAppends
    /\ \E u \in Users, role \in Roles :
        LET content == nAdds + 1
            r == add_message(contexts, max_messages, u, role, content)
        IN  /\ contexts' = r.store
            /\ history' = [history EXCEPT
                             ![u] = Append(@, [role |-> role, content |-> content])]
            /\ cleared' = cleared \ {u}
            /\ lastOp' = [op |-> "add", user |-> u, result |-> r.result,
                         pre |-> PreLen(contexts, u)]
    /\ nAdds' = nAdds + 1
    /\ UNCHANGED <<clientVars, max_messages, startVars, handlerVars>>

GetContext ==
    \E u \in Users :
        LET r == get_context(contexts, u)
        IN  /\ contexts' = r.store
            /\ lastOp' = [op |-> "get", user |-> u, result |-> r.result,
                         pre |-> PreLen(contexts, u)]
            /\ cleared' = cleared \ {u}
            /\ UNCHANGED <<clientVars, max_messages, history, nAdds, startVars, handlerVars>>

ClearContext ==
    \E u \in Users :
        LET r == clear_context(contexts, u)
        IN  /\ contexts' = r.store
            /\ lastOp' = [op |-> "clear", user |-> u, result |-> r.result,
                         pre |-> PreLen(contexts, u)]
            /\ history' = [history EXCEPT ![u] = <<>>]
            /\ cleared' = cleared \cup {u}
            /\ UNCHANGED <<clientVars, max_messages, nAdds, startVars, handlerVars>>

GetUserIds ==
    LET r == get_user_ids(contexts)
    IN  /\ contexts' = r.store
        /\ lastOp' = [op |-> "ids", user |-> 0, result |-> r.result, pre |-> -1]
        /\ UNCHANGED <<clientVars, max_messages, history, cleared, nAdds,
                      startVars, handlerVars>>

GetContextLength ==
    \E u \in Users :
        LET r == get_context_length(contexts, u)
        IN  /\ contexts' = r.store
            /\ lastOp' = [op |-> "length", user |-> u, result |-> r.result,
                         pre |-> PreLen(contexts, u)]
            /\ UNCHANGED <<clientVars, max_messages, history, cleared, nAdds,
                      startVars, handlerVars>>

StoreNext ==
    \/ AddMessage
    \/ GetContext
    \/ ClearContext
    \/ GetUserIds
    \/ GetContextLength

StoreSpec == StoreInit /\ [][StoreNext]_vars

----------------------------------------------------------------------------
(* Spec: the bot process.  The module-level code of bot.py runs first      *)
(* (construction of the clients, selection of the provider); if it raises, *)
(* the process ends, otherwise the dispatcher runs the handlers.  A        *)
(* handler keeps the event loop up to an awaited message.answer: the store *)
(* calls and client.generate_response are synchronous calls.  A task is at *)
(* pc "call" while generate_response runs and at pc "await" while its      *)
(* answer is being sent.                                                   *)

StoreIdle ==
    /\ contexts = EmptyStore
    /\ history = [u \in Users |-> <<>>]
    /\ cleared = {}
    /\ lastOp = NoOp
    /\ nAdds = 0

HandlersIdle ==
    /\ tasks = [i \in 1..MaxTasks |-> Free]
    /\ sent = <<>>
    /\ requests = <<>>
    /\ returned = <<>>
    /\ nUpdates = 0

Init ==
    /\ StoreIdle
    /\ max_messages = BotMaxMessages
    /\ phase = "boot"
    /\ AI_PROVIDER \in ExplicitKeys
    /\ apiKeys \in SUBSET CredentialKeys
    /\ clients = NoClients
    /\ active_provider = <<>>
    /\ startupError = None
    /\ HandlersIdle
    /\ ClientsIdle

\* lines 38-72
ConstructClients ==
    /\ phase = "boot"
    /\ clients' = [k \in ProviderKeys |-> new_client(k, apiKeys)]
    /\ phase' = "constructed"
    /\ UNCHANGED <<clientVars, AI_PROVIDER, apiKeys, active_provider, startupError,
                   storeVars, handlerVars>>

\* lines 75-113
SelectProvider ==
    /\ phase = "constructed"
    /\ LET r == select_provider(AI_PROVIDER, clients)
       IN  /\ active_provider' = r.active
           /\ startupError' = r.error
           /\ phase' = IF r.error = None THEN "running" ELSE "failed"
    /\ UNCHANGED <<clientVars, AI_PROVIDER, apiKeys, clients, storeVars, handlerVars>>

CanDispatch ==
    /\ phase = "running"
    /\ LoopFree
    /\ nUpdates < MaxUpdates
    /\ FreeSlots # {}

\* send_welcome, lines 115-127, up to the awaited answer
SendWelcome ==
    /\ CanDispatch
    /\ \E u \in Users :
        tasks' = [tasks EXCEPT
                    ![NewSlot] = Awaiting("welcome", u, active_provider[2])]
    /\ nUpdates' = nUpdates + 1
    /\ UNCHANGED <<clientVars, storeVars, startVars, sent, requests,
                   returned>>

\* clear_context / _clear_context_handler, lines 129-144, up to the awaited
\* answer
ClearCommand ==
    /\ CanDispatch
    /\ \E u \in Users :
        /\ contexts' = clear_context(contexts, u).store
        /\ history' = [history EXCEPT ![u] = <<>>]
        /\ cleared' = cleared \cup {u}
        /\ tasks' = [tasks EXCEPT
                       ![NewSlot] = Awaiting("cleared", u, ClearedText)]
    /\ nUpdates' = nUpdates + 1
    /\ UNCHANGED <<clientVars, max_messages, lastOp, nAdds, startVars, sent,
                   requests, returned>>

\* handle_message, lines 146-204: up to the awaited answer for the clear
\* phrase, otherwise up to the call of client.generate_response
HandleMessage ==
    /\ CanDispatch
    /\ \E u \in Users, text \in Utterances :
        LET user_message == Strip(text)
        IN  IF Lower(user_message) = ClearPhrase
            THEN /\ contexts' = clear_context(contexts, u).store
                 /\ history' = [history EXCEPT ![u] = <<>>]
                 /\ cleared' = cleared \cup {u}
                 /\ tasks' = [tasks EXCEPT
                        ![NewSlot] = Awaiting("cleared_by_text", u, ClearedText)]
                 /\ UNCHANGED requests
            ELSE LET s1 == add_message(contexts, max_messages, u, "user",
                                       user_message).store
                     got == get_context(s1, u)
                     context == got.result
                     key == active_provider[1]
                     client == handler_client(active_provider)
                     userMsg == [role |-> "user", content |-> user_message]
                 IN  /\ requests' =
                            IF key \in ProviderKeys
                            THEN Append(requests, [user |-> u, client |-> client,
                                                   messages |-> context])
                            ELSE requests
                     /\ cleared' = cleared \ {u}
                     /\ contexts' = got.store
                     /\ history' = [history EXCEPT ![u] = Append(@, userMsg)]
                     /\ tasks' = [tasks EXCEPT
                            ![NewSlot] = Calling(u, user_message)]
    /\ nUpdates' = nUpdates + 1
    /\ UNCHANGED <<clientVars, max_messages, lastOp, nAdds, startVars, sent,
                   returned>>

\* handle_message, lines 166-216: generate_response returns and the handler
\* runs up to the awaited answer
ProviderReturns ==
    \E i \in 1..MaxTasks, outcome \in Responses :
        /\ tasks[i].pc = "call"
        /\ LET u == tasks[i].user
               key == active_provider[1]
               response == IF key \in ProviderKeys THEN outcome ELSE None
               botMsg == [role |-> "assistant", content |-> response]
           IN  /\ returned' = Append(returned, [user |-> u,
                                                response |-> response])
               /\ IF Truthy(response)
                  THEN /\ contexts' = add_message(contexts, max_messages, u,
                                                  "assistant", response).store
                       /\ history' = [history EXCEPT ![u] = Append(@, botMsg)]
                       /\ tasks' = [tasks EXCEPT
                               ![i] = Awaiting("reply", u, response)]
                  ELSE /\ contexts' = failure_store(contexts, max_messages, u)
                       /\ history' = history
                       /\ tasks' = [tasks EXCEPT
                               ![i] = Awaiting("apology", u, ApologyText)]
        /\ UNCHANGED <<clientVars, max_messages, cleared, lastOp, nAdds,
                       startVars, sent, requests, nUpdates>>

\* an awaited message.answer returns: the text is delivered and the handler
\* runs to its end
AnswerReturns ==
    \E i \in 1..MaxTasks :
        /\ tasks[i].pc = "await"
        /\ LoopFree
        /\ sent' = Append(sent, [user |-> tasks[i].user, kind |-> tasks[i].kind,
                                 text |-> tasks[i].text])
        /\ tasks' = [tasks EXCEPT ![i] = Free]
        /\ UNCHANGED <<clientVars, storeVars, startVars, requests, returned,
                       nUpdates>>

\* an awaited message.answer raises AiogramError: handle_message and
\* send_welcome log it (lines 126, 218); _clear_context_handler catches it
\* and awaits the answer with the error text (lines 136-138)
AnswerRaises ==
    \E i \in 1..MaxTasks :
        /\ tasks[i].pc = "await"
        /\ LoopFree
        /\ tasks' = [tasks EXCEPT
                ![i] = IF tasks[i].kind = "cleared"
                       THEN Awaiting("clear_error", tasks[i].user, ClearErrorText)
                       ELSE Free]
        /\ UNCHANGED <<clientVars, storeVars, startVars, sent, requests,
                       returned, nUpdates>>

Next ==
    \/ ConstructClients
    \/ SelectProvider
    \/ SendWelcome
    \/ ClearCommand
    \/ HandleMessage
    \/ ProviderReturns
    \/ AnswerReturns
    \/ AnswerRaises

Spec == Init /\ [][Next]_vars

----------------------------------------------------------------------------
(* DialogSpec: the handlers of a running bot whose first user has already  *)
(* had a number of answered utterances, so that the context is at or near  *)
(* max_messages = 20 when the run starts.                                  *)

MaxTalk == 11       \* answered utterances before the run: 0..MaxTalk

Talker == CHOOSE u \in Users : \A v \in Users : u <= v

\* the store after n utterances "hi" of Talker, each answered with "hello":
\* the two add_message calls of lines 161 and 208, n times
RECURSIVE Talked(_)
Talked(n) ==
    IF n = 0 THEN EmptyStore
    ELSE add_message(add_message(Talked(n - 1), BotMaxMessages, Talker, "user",
                                 "hi").store,
                     BotMaxMessages, Talker, "assistant", "hello").store

\* ghost: the messages appended by those n utterances
RECURSIVE Said(_)
Said(n) ==
    IF n = 0 THEN <<>>
    ELSE Said(n - 1) \o <<[role |-> "user", content |-> "hi"],
                          [role |-> "assistant", content |-> "hello"]>>

DialogInit ==
    /\ \E n \in 0..MaxTalk :
        /\ contexts = Talked(n)
        /\ history = [u \in Users |-> IF u = Talker THEN Said(n) ELSE <<>>]
    /\ cleared = {}
    /\ lastOp = NoOp
    /\ nAdds = 0
    /\ max_messages = BotMaxMessages
    /\ phase = "running"
    /\ AI_PROVIDER \in {None, "genapi"}
    /\ apiKeys = CredentialKeys
    /\ clients = [k \in ProviderKeys |-> new_client(k, apiKeys)]
    /\ active_provider = select_provider(AI_PROVIDER, clients).active
    /\ startupError = None
    /\ HandlersIdle
    /\ ClientsIdle

DialogNext ==
    \/ SendWelcome
    \/ ClearCommand
    \/ HandleMessage
    \/ ProviderReturns
    \/ AnswerReturns
    \/ AnswerRaises

DialogSpec == DialogInit /\ [][DialogNext]_vars

----------------------------------------------------------------------------
(* SelectorSpec: the selection block applied to every value of AI_PROVIDER *)
(* and every combination of the five client variables being None or set.   *)

SelectorInit ==
    /\ StoreIdle
    /\ max_messages = BotMaxMessages
    /\ phase = "constructed"
    /\ AI_PROVIDER \in ExplicitKeys
    /\ apiKeys = {}
    /\ \E built \in SUBSET ProviderKeys :
        clients = [k \in ProviderKeys |->
                     IF k \in built THEN ClientObject[k] ELSE None]
    /\ active_provider = <<>>
    /\ startupError = None
    /\ HandlersIdle
    /\ ClientsIdle

SelectorNext == SelectProvider

SelectorSpec == SelectorInit /\ [][SelectorNext]_vars

----------------------------------------------------------------------------
(* ExtractSpec: _extract_text_from_output applied to decoded payloads of   *)
(* every shape the function tests for, well-formed and malformed.          *)

Absent == [t |-> "absent", v |-> 0]

\* the dict with the fields of f that are not Absent
MkDict(f) == JDict([k \in {x \in DOMAIN f : f[x].t # "absent"} |-> f[k]])

Part(ty, text) == JDict([type |-> JStr(ty), text |-> text])

Atoms ==
    {JNull, JNum(7), JNum(0), JBool(FALSE), JStr(<<>>), JStr(<<" ">>),
     JStr(<<"a">>), JStr(<<" ", "b", " ">>)}

Parts ==
    {Part(TextWord, JStr(<<"p">>)), Part(TextWord, JStr(<<" ">>)),
     Part(TextWord, JNum(7)), Part(ImageWord, JStr(<<"i">>)), JStr(<<"s">>)}

PartLists ==
    {JList(<<>>)} \cup {JList(<<x>>) : x \in Parts}
        \cup {JList(<<x, y>>) : x \in Parts, y \in Parts}

MessageValues ==
    {JStr(<<"m">>), JNum(7), MkDict([content |-> JStr(<<"d">>)]),
     MkDict([content |-> JStr(<<" ">>)]), MkDict([content |-> JNum(7)])}

ChoicesValues ==
    {JStr(<<"x">>), JList(<<>>), JList(<<JStr(<<"x">>)>>)}
        \cup {JList(<<MkDict([message |-> m])>>) : m \in MessageValues \cup {Absent}}

DictInputs ==
    {MkDict([text |-> t, content |-> c, message |-> m, choices |-> ch]) :
        t \in {Absent, JStr(<<>>), JStr(<<" ">>), JStr(<<"t">>), JNum(7),
               JList(<<Part(TextWord, JStr(<<"q">>))>>)},
        c \in {Absent, JStr(<<"c">>), JStr(<<" ">>), JNum(7),
               JList(<<Part(ImageWord, JStr(<<"i">>)),
                       Part(TextWord, JStr(<<"p">>))>>),
               JList(<<JStr(<<"s">>), Part(TextWord, JNum(7))>>)},
        m \in {Absent, JStr(<<"m">>), JNum(7),
               MkDict([content |-> JStr(<<"d">>)])},
        ch \in ChoicesValues \cup {Absent}}

ListItems ==
    {MkDict([message |-> MkDict([content |-> JStr(c)]), text |-> t]) :
        c \in {<<"d">>, <<" ">>}, t \in {Absent, JStr(<<"t">>)}}
    \cup {MkDict([text |-> t, content |-> c, role |-> r]) :
            t \in {Absent, JStr(<<" ">>), JStr(<<"t">>), JNum(7)},
            c \in {Absent, JStr(<<"c">>),
                   JList(<<Part(TextWord, JStr(<<"p">>))>>)},
            r \in {Absent, JStr(AssistantWord)}}
    \cup {MkDict([text |-> JList(<<x>>)]) : x \in Parts}
    \cup {JNull, JNum(7)}

StringListItems == {JStr(<<"h", "e">>), JStr(<<" ">>), JStr(<<>>), JNum(7)}

\* the sequences over S of length 0..n
RECURSIVE SeqsUpTo(_, _)
SeqsUpTo(S, n) ==
    IF n = 0 THEN {<<>>}
    ELSE SeqsUpTo(S, n - 1)
            \cup {Append(q, x) : q \in {y \in SeqsUpTo(S, n - 1) : Len(y) = n - 1},
                                 x \in S}

ExtractInputs ==
    Atoms \cup PartLists \cup DictInputs
        \cup {JList(q) : q \in SeqsUpTo(ListItems, MaxItems)}
        \cup {JList(q) : q \in SeqsUpTo(StringListItems, MaxItems)}

ExtractInit ==
    /\ StoreIdle
    /\ max_messages = BotMaxMessages
    /\ phase = "off"
    /\ AI_PROVIDER = None
    /\ apiKeys = {}
    /\ clients = NoClients
    /\ active_provider = <<>>
    /\ startupError = None
    /\ tasks = [i \in 1..MaxTasks |-> Free]
    /\ sent = <<>>
    /\ requests = <<>>
    /\ returned = <<>>
    /\ nUpdates = 0
    /\ raw \in ExtractInputs
    /\ extracted = Pending
    /\ CallIdle

\* one call _extract_text_from_output(raw)
Extract ==
    /\ extracted.t = "pending"
    /\ extracted' = extract_text_from_output(raw)
    /\ UNCHANGED <<raw, callVars, storeVars, startVars, handlerVars>>

ExtractNext == Extract

ExtractSpec == ExtractInit /\ [][ExtractNext]_vars

----------------------------------------------------------------------------
(* One generate_response call of a provider client: the outcomes of its    *)
(* outbound calls and what the code makes of them.                         *)

MaxPollInterval == 2    \* poll_interval is drawn from 1..MaxPollInterval
MaxPollWait == 3        \* poll_max_wait is drawn from 1..MaxPollWait
MaxGetTime == 2         \* a status GET takes 0..MaxGetTime ticks of the clock
MaxCount == 3           \* the ghost counters saturate here

Callees ==
    {"GenAPIClient", "OllamaClient", "OpenAIClient", "DeepSeekClient",
     "ProxyAPIClient"}

\* the clients built on the OpenAI SDK
SdkCallees == {"OpenAIClient", "DeepSeekClient", "ProxyAPIClient"}

\* an outbound call that raised instead of returning a response
NetRaise == [t |-> "raise", code |-> 0, body |-> JNull]

\* a response with a status code and a body
HttpResponse(c, b) == [t |-> "http", code |-> c, body |-> b]

\* a body on which resp.json() raises
Undecodable == [t |-> "undecodable", v |-> 0]

SuccessWord == <<"s", "u", "c", "c", "e", "s", "s">>
FailedWord == <<"f", "a", "i", "l", "e", "d">>
StartingWord == <<"s", "t", "a", "r", "t", "i", "n", "g">>
ProcessingWord == <<"p", "r", "o", "c", "e", "s", "s", "i", "n", "g">>
QueuedWord == <<"q", "u", "e", "u", "e", "d">>

\* x == "word" for a decoded value x
IsWord(x, w) == x.t = "str" /\ x.v = w

\* a step of the call: it returns val (after logging log), or it goes on
Ends(x, msg) == [ends |-> TRUE, val |-> x, log |-> msg]
Goes(msg) == [ends |-> FALSE, val |-> JNull, log |-> msg]

\* saturating increment of a ghost counter
Count(n) == Min(n + 1, MaxCount)

\* time.sleep(secs) seen on the clock
sleep_stuck(t, secs) == t

sleep(t, secs) == t + secs

\* line 198: request_id is None
missing_request_id_never(request_id) == FALSE

missing_request_id(request_id) == request_id.t = "null"

\* line 220: while time.monotonic() < deadline
loop_continues_inclusive(t, dl) == t <= dl

loop_continues(t, dl) == t < dl

\* line 222: the HTTP method of the status request
poll_method_post == "POST"

poll_method == "GET"

\* GenAPIClient.generate_response, lines 166-212, after the POST returned resp
after_submit(resp) ==
    IF resp.t = "raise" THEN Ends(JNull, "request error")
    ELSE IF resp.code = 404 THEN Ends(JNull, "404")
    ELSE IF resp.code = 401 THEN Ends(JNull, "401")
    ELSE IF resp.code = 402 THEN Ends(JNull, "402")
    ELSE IF resp.code >= 400 THEN Ends(JNull, "http error")
    ELSE IF resp.body.t # "dict" THEN Ends(JNull, "exception")
    ELSE LET data == resp.body
             status == DictGet(data, "status")
             text == extract_text_from_output(DictGet(data, "output"))
             request_id == DictGet(data, "request_id")
         IN  IF IsWord(status, SuccessWord)
             THEN IF JTruthy(text) THEN Ends(text, None)
                  ELSE Ends(JNull, "no text in output")
             ELSE IF IsWord(status, FailedWord) THEN Ends(JNull, "failed")
             ELSE IF missing_request_id(request_id)
                  THEN Ends(JNull, "no request_id")
             ELSE Goes(None)

\* lines 230-234: the first of the keys whose value yields text
RECURSIVE first_text_of(_, _)
first_text_of(data, keys) ==
    IF keys = <<>> THEN JNull
    ELSE LET text == extract_text_from_output(DictGet(data, Head(keys)))
         IN  IF JTruthy(text) THEN text ELSE first_text_of(data, Tail(keys))

ResultKeys_reversed == <<"response", "full_response", "output", "result">>

ResultKeys == <<"result", "output", "full_response", "response">>

\* what line 245 does with an exception raised inside the loop body
on_poll_exception_return == Ends(JNull, "poll exception")

on_poll_exception == Goes("poll exception")

\* GenAPIClient._poll_until_done, lines 222-246, after the GET returned resp
after_poll(resp) ==
    IF resp.t = "raise" THEN on_poll_exception
    ELSE IF resp.code # 200 THEN Ends(JNull, "poll http error")
    ELSE IF resp.body.t # "dict" THEN on_poll_exception
    ELSE LET data == resp.body
             status == DictGet(data, "status")
             text == first_text_of(data, ResultKeys)
         IN  IF IsWord(status, SuccessWord)
             THEN IF JTruthy(text) THEN Ends(text, None)
                  ELSE Ends(JNull, "no text in result")
             ELSE IF IsWord(status, FailedWord) THEN Ends(JNull, "poll failed")
             ELSE Goes(None)

\* OllamaClient.generate_response, lines 56-85, after requests.post returned
ollama_result(resp) ==
    IF resp.t = "raise" THEN JNull
    ELSE IF resp.code >= 400 THEN JNull
    ELSE IF resp.body.t # "dict" THEN JNull
    ELSE LET message == IF "message" \in DOMAIN resp.body.v
                        THEN resp.body.v["message"] ELSE JDict(<<>>)
         IN  IF message.t # "dict" THEN JNull
             ELSE DictGet(message, "content")

\* the outcome of client.chat.completions.create: an SDK exception, or a
\* completion whose choices carry message.content
SdkRaise(kind) == [t |-> "raise", choices |-> <<>>, kind |-> kind]
SdkCompletion(contents) == [t |-> "completion", choices |-> contents, kind |-> None]

\* OpenAIClient.generate_response, lines 61-76 (DeepSeekClient and
\* ProxyAPIClient alike): response.choices[0].message.content
sdk_result(resp) ==
    IF resp.t = "raise" THEN JNull
    ELSE IF resp.choices = <<>> THEN JNull
    ELSE resp.choices[1]

----------------------------------------------------------------------------
(* CallSpec: one generate_response call of each client class against       *)
(* every outcome of its outbound calls.  The clock is discrete; a sleep of *)
(* poll_interval >= 1 advances it, a status GET takes 0..MaxGetTime.       *)

StatusValues ==
    {Absent, JStr(SuccessWord), JStr(FailedWord), JStr(StartingWord),
     JStr(ProcessingWord), JStr(QueuedWord)}

SubmitBodies ==
    {Undecodable, JList(<<>>)}
        \cup {MkDict([status |-> s, request_id |-> r, output |-> Absent]) :
                s \in StatusValues, r \in {Absent, JNull, JNum(42)}}
        \cup {MkDict([status |-> JStr(SuccessWord), request_id |-> r,
                      output |-> o]) :
                r \in {Absent, JNum(42)}, o \in {JStr(<<"a">>), JStr(<<" ">>)}}

SubmitResponses ==
    {NetRaise}
        \cup {HttpResponse(c, JNull) : c \in {401, 402, 404, 500}}
        \cup {HttpResponse(302, Undecodable)}
        \cup {HttpResponse(200, b) : b \in SubmitBodies}

\* the values of one result field of a finished job
FieldValues(letter) == {Absent, JStr(<<" ">>), JStr(<<letter>>)}

PollBodies ==
    {Undecodable, JList(<<>>)}
        \cup {MkDict([status |-> s]) :
                s \in {Absent, JStr(ProcessingWord), JStr(FailedWord)}}
        \cup {MkDict([status |-> JStr(ProcessingWord), result |-> JStr(<<"a">>)])}
        \cup {MkDict([status |-> JStr(SuccessWord), result |-> a, output |-> b,
                      full_response |-> c, response |-> d]) :
                a \in FieldValues("a")
                        \cup {JList(<<MkDict([message |->
                                        MkDict([content |-> JStr(<<"m">>)])])>>)},
                b \in FieldValues("b"),
                c \in FieldValues("c"),
                d \in FieldValues("d")}

PollResponses ==
    {NetRaise}
        \cup {HttpResponse(c, JNull) : c \in {404, 500}}
        \cup {HttpResponse(200, b) : b \in PollBodies}

OllamaResponses ==
    {NetRaise}
        \cup {HttpResponse(c, JNull) : c \in {404, 500}}
        \cup {HttpResponse(200, b) : b \in {Undecodable, JList(<<>>)}}
        \cup {HttpResponse(200, MkDict([message |-> m])) :
                m \in {Absent, JNull, JStr(<<"x">>)}
                        \cup {MkDict([content |-> c]) :
                                c \in {Absent, JNull, JStr(<<>>),
                                       JStr(<<"h", "i">>), JNum(42),
                                       JList(<<>>)}}}

SdkResponses ==
    {SdkRaise(k) : k \in {"AuthenticationError", "RateLimitError", "APIError",
                          "Exception"}}
        \cup {SdkCompletion(<<>>)}
        \cup {SdkCompletion(<<c>>) : c \in {JNull, JStr(<<>>), JStr(<<"h", "i">>)}}

CallInit ==
    /\ StoreIdle
    /\ max_messages = BotMaxMessages
    /\ phase = "off"
    /\ AI_PROVIDER = None
    /\ apiKeys = {}
    /\ clients = NoClients
    /\ active_provider = <<>>
    /\ startupError = None
    /\ tasks = [i \in 1..MaxTasks |-> Free]
    /\ sent = <<>>
    /\ requests = <<>>
    /\ returned = <<>>
    /\ nUpdates = 0
    /\ ExtractIdle
    /\ cpc = "start"
    /\ callee \in Callees
    /\ poll_interval \in IF callee = "GenAPIClient" THEN 1..MaxPollInterval ELSE {0}
    /\ poll_max_wait \in IF callee = "GenAPIClient" THEN 0..MaxPollWait ELSE {0}
    /\ now = 0
    /\ deadline = 0
    /\ submitResp = Pending
    /\ lastResp = Pending
    /\ result = Pending
    /\ pollStart = 0
    /\ getStart = 0
    /\ nPost = 0
    /\ nGet = 0
    /\ nErr = 0
    /\ logged = None

\* GenAPIClient.generate_response, lines 150-212: the POST, then a return or
\* the call of _poll_until_done
Submit ==
    /\ cpc = "start"
    /\ callee = "GenAPIClient"
    /\ \E resp \in SubmitResponses :
         LET out == after_submit(resp)
         IN  /\ submitResp' = resp
             /\ nPost' = Count(nPost)
             /\ logged' = out.log
             /\ IF out.ends
                THEN /\ cpc' = "done"
                     /\ result' = out.val
                     /\ pollStart' = pollStart
                ELSE /\ cpc' = "sleep0"
                     /\ result' = result
                     /\ pollStart' = now
    /\ UNCHANGED <<callee, poll_interval, poll_max_wait, now, deadline,
                   lastResp, getStart, nGet, nErr>>
    /\ UNCHANGED <<extractVars, storeVars, startVars, handlerVars>>

\* _poll_until_done, lines 216-219: the first sleep, then the deadline; an
\* exception of time.sleep reaches the handler of line 210
InitialSleep ==
    /\ cpc = "sleep0"
    /\ \/ /\ now' = sleep(now, poll_interval)
          /\ deadline' = now' + poll_max_wait
          /\ cpc' = "check"
          /\ UNCHANGED <<result, logged>>
       \/ /\ cpc' = "done"
          /\ result' = JNull
          /\ logged' = "exception"
          /\ UNCHANGED <<now, deadline>>
    /\ UNCHANGED <<callee, poll_interval, poll_max_wait, submitResp, lastResp,
                   pollStart, getStart, nPost, nGet, nErr>>
    /\ UNCHANGED <<extractVars, storeVars, startVars, handlerVars>>

\* line 220: the loop condition; lines 248-249 when it fails
LoopCheck ==
    /\ cpc = "check"
    /\ IF loop_continues(now, deadline)
       THEN /\ cpc' = "get"
            /\ UNCHANGED <<result, logged>>
       ELSE /\ cpc' = "done"
            /\ result' = JNull
            /\ logged' = "poll timeout"
    /\ UNCHANGED <<callee, poll_interval, poll_max_wait, now, deadline,
                   submitResp, lastResp, pollStart, getStart, nPost, nGet,
                   nErr>>
    /\ UNCHANGED <<extractVars, storeVars, startVars, handlerVars>>

\* lines 221-246: one status request and what the loop body makes of it
StatusGet ==
    /\ cpc = "get"
    /\ \E resp \in PollResponses, d \in 0..MaxGetTime :
         LET out == after_poll(resp)
         IN  /\ lastResp' = resp
             /\ getStart' = now
             /\ now' = now + d
             /\ nGet' = IF poll_method = "GET" THEN Count(nGet) ELSE nGet
             /\ nPost' = IF poll_method = "POST" THEN Count(nPost) ELSE nPost
             /\ nErr' = IF resp.t = "raise" THEN Count(nErr) ELSE nErr
             /\ logged' = IF out.log = None THEN logged ELSE out.log
             /\ IF out.ends
                THEN cpc' = "done" /\ result' = out.val
                ELSE cpc' = "sleep" /\ result' = result
    /\ UNCHANGED <<callee, poll_interval, poll_max_wait, deadline, submitResp,
                   pollStart>>
    /\ UNCHANGED <<extractVars, storeVars, startVars, handlerVars>>

\* line 247: the sleep between two status requests
LoopSleep ==
    /\ cpc = "sleep"
    /\ \/ /\ now' = sleep(now, poll_interval)
          /\ cpc' = "check"
          /\ UNCHANGED <<result, logged>>
       \/ /\ cpc' = "done"
          /\ result' = JNull
          /\ logged' = "exception"
          /\ now' = now
    /\ UNCHANGED <<callee, poll_interval, poll_max_wait, deadline, submitResp,
                   lastResp, pollStart, getStart, nPost, nGet, nErr>>
    /\ UNCHANGED <<extractVars, storeVars, startVars, handlerVars>>

\* OllamaClient.generate_response, lines 38-85
OllamaCall ==
    /\ cpc = "start"
    /\ callee = "OllamaClient"
    /\ \E resp \in OllamaResponses :
         /\ submitResp' = resp
         /\ result' = ollama_result(resp)
    /\ nPost' = Count(nPost)
    /\ cpc' = "done"
    /\ UNCHANGED <<callee, poll_interval, poll_max_wait, now, deadline,
                   lastResp, pollStart, getStart, nGet, nErr, logged>>
    /\ UNCHANGED <<extractVars, storeVars, startVars, handlerVars>>

\* generate_response of OpenAIClient, DeepSeekClient and ProxyAPIClient
SdkCall ==
    /\ cpc = "start"
    /\ callee \in SdkCallees
    /\ \E resp \in SdkResponses :
         /\ submitResp' = resp
         /\ result' = sdk_result(resp)
    /\ nPost' = Count(nPost)
    /\ cpc' = "done"
    /\ UNCHANGED <<callee, poll_interval, poll_max_wait, now, deadline,
                   lastResp, pollStart, getStart, nGet, nErr, logged>>
    /\ UNCHANGED <<extractVars, storeVars, startVars, handlerVars>>

CallNext ==
    \/ Submit
    \/ InitialSleep
    \/ LoopCheck
    \/ StatusGet
    \/ LoopSleep
    \/ OllamaCall
    \/ SdkCall

CallSpec == CallInit /\ [][CallNext]_vars

\* the call runs in one thread that is never suspended for ever
CallFairSpec == CallInit /\ [][CallNext]_vars /\ WF_vars(CallNext)

----------------------------------------------------------------------------
(* Helpers of the properties *)

Range(s) == {s[i] : i \in 1..Len(s)}

\* the last n elements of s (all of s when n >= Len(s), none when n <= 0)
LastN(s, n) == SubSeq(s, Max(Len(s) - n, 0) + 1, Len(s))

\* a is an order-preserving subsequence of b
RECURSIVE IsSubseq(_, _)
IsSubseq(a, b) ==
    IF a = <<>> THEN TRUE
    ELSE IF b = <<>> THEN FALSE
    ELSE IF Head(a) = Head(b) THEN IsSubseq(Tail(a), Tail(b))
    ELSE IsSubseq(a, Tail(b))

\* the number of system messages at the head of ctx
RECURSIVE HeadSystemCount(_)
HeadSystemCount(ctx) ==
    IF ctx = <<>> \/ Head(ctx).role # "system" THEN 0
    ELSE 1 + HeadSystemCount(Tail(ctx))

\* this step is an add_message call
IsAddStep == nAdds' = nAdds + 1

----------------------------------------------------------------------------
(* Properties of the context store (StoreSpec) *)

\* C1: after every add_message call, each user's context holds at most
\* max_messages messages.
C1_LengthBounded ==
    \A u \in DOMAIN contexts : Len(contexts[u]) <= max_messages

\* C2: when an add_message call pushes a context over max_messages and the
\* context has fewer than max_messages system messages, the context after
\* the call is made of all its system messages and exactly the
\* (max_messages - count(system)) most recently appended non-system messages.
C2_KeepsMostRecentNonSystem ==
    [][IsAddStep =>
        LET u    == lastOp'.user
            pre  == Entry(contexts, u)
            full == Append(pre, history'[u][Len(history'[u])])
            sys  == SelectSeq(full, IsSystem)
            oth  == SelectSeq(full, NotSystem)
        IN  (Len(pre) <= max_messages /\ Len(full) > max_messages
                /\ Len(sys) < max_messages)
            => /\ Len(contexts'[u]) = max_messages
               /\ Range(contexts'[u]) =
                    Range(sys) \cup Range(LastN(oth, max_messages - Len(sys)))
      ]_vars

\* C3: add_message never removes or moves a system message at the head of
\* the user's context: every message of the leading run of system messages
\* before the call is at the same position after it.
C3_HeadSystemKept ==
    [][IsAddStep =>
        LET u   == lastOp'.user
            pre == Entry(contexts, u)
        IN  \A i \in 1..HeadSystemCount(pre) :
                /\ i <= Len(contexts'[u])
                /\ contexts'[u][i] = pre[i]
      ]_vars

\* C3 witness: an add_message call has just evicted messages from a context
\* that starts with a system message.
C3_Witness ==
    /\ lastOp.op = "add"
    /\ lastOp.pre >= 1
    /\ Len(contexts[lastOp.user]) <= lastOp.pre
    /\ contexts[lastOp.user][1].role = "system"
    /\ history[lastOp.user][1] = contexts[lastOp.user][1]

\* C4: each user's context is an order-preserving subsequence of the
\* messages appended for that user since the last clear.
C4_OrderPreserved ==
    \A u \in DOMAIN contexts : IsSubseq(contexts[u], history[u])

\* C5: a cleared user stays out of get_user_ids() until the next
\* add_message or get_context for that user; the first get_context after a
\* clear returns the empty list; clearing an absent user changes nothing.
C5_ClearRemovesEntry ==
    [][/\ \A u \in cleared' : u \notin get_user_ids(contexts').result
       /\ (lastOp'.op = "get" /\ lastOp'.user \in cleared)
            => lastOp'.result = <<>>
       /\ (lastOp'.op = "clear" /\ lastOp'.user \notin DOMAIN contexts)
            => contexts' = contexts
      ]_vars

\* C5 witness: a context of several messages has just been cleared while
\* another user keeps an entry.
C5_Witness ==
    /\ lastOp.op = "clear"
    /\ lastOp.pre >= 2
    /\ lastOp.user \in cleared
    /\ lastOp.user \notin DOMAIN contexts
    /\ DOMAIN contexts # {}

\* C6: get_context_length changes nothing in the store and returns 0 for an
\* absent user; get_context adds an empty entry for an absent user and
\* changes no existing entry.
C6_ReadsFrameStore ==
    [][/\ lastOp'.op = "length"
            => /\ contexts' = contexts
               /\ lastOp'.user \notin DOMAIN contexts
                    => /\ lastOp'.result = 0
                       /\ lastOp'.user \notin get_user_ids(contexts').result
       /\ lastOp'.op = "get"
            => /\ DOMAIN contexts' = DOMAIN contexts \cup {lastOp'.user}
               /\ \A x \in DOMAIN contexts : contexts'[x] = contexts[x]
               /\ lastOp'.user \notin DOMAIN contexts
                    => contexts'[lastOp'.user] = <<>>
      ]_vars

\* C6 witness: get_context_length has just been called for an absent user
\* while another user has messages.
C6_Witness ==
    /\ lastOp.op = "length"
    /\ lastOp.pre = -1
    /\ lastOp.result = 0
    /\ lastOp.user \notin DOMAIN contexts
    /\ \E x \in DOMAIN contexts : Len(contexts[x]) > 0

----------------------------------------------------------------------------
(* Properties of the provider selection and of the handlers *)

Started == phase \in {"running", "failed"}

Built == {k \in ProviderKeys : clients[k] # None}

\* the position of a provider key in the documented priority order
Position(k) ==
    CASE k = "ollama" -> 1
      [] k = "openai" -> 2
      [] k = "deepseek" -> 3
      [] k = "genapi" -> 4
      [] k = "proxyapi" -> 5

\* C7: when AI_PROVIDER is a recognised key whose client was not
\* constructed, start-up fails with ProviderNotConstructible.
C7_UnbuiltExplicitKeyFailure ==
    (Started /\ AI_PROVIDER \in ProviderKeys /\ AI_PROVIDER \notin Built)
        => (phase = "failed" /\ startupError = "ProviderNotConstructible")

\* C8: with an explicit key, start-up ends either with the provider of that
\* key active or with a failure; no other provider becomes active.
C8_ExplicitKeyNoFallback ==
    (Started /\ AI_PROVIDER # None)
        => \/ (phase = "failed" /\ active_provider = <<>>
                 /\ startupError # None)
           \/ (phase = "running" /\ active_provider # <<>>
                 /\ active_provider[1] = AI_PROVIDER
                 /\ active_provider[3] = clients[AI_PROVIDER])

\* C8 witness: the explicit key names a provider that was not constructed
\* while another provider was, and start-up has failed.
C8_Witness ==
    /\ phase = "failed"
    /\ AI_PROVIDER \in ProviderKeys
    /\ AI_PROVIDER \notin Built
    /\ Built # {}
    /\ active_provider = <<>>

\* C9: without an explicit key the active provider is the constructible
\* provider that comes first in [ollama, openai, deepseek, genapi, proxyapi];
\* start-up fails, with NoProviderAvailable, exactly when none is
\* constructible.
C9_FirstConstructibleByPriority ==
    (Started /\ AI_PROVIDER = None)
        => /\ (Built = {}) <=> (phase = "failed")
           /\ phase = "failed"
                => (startupError = "NoProviderAvailable"
                        /\ active_provider = <<>>)
           /\ phase = "running"
                => /\ active_provider # <<>>
                   /\ active_provider[1] \in Built
                   /\ \A k \in Built : Position(active_provider[1]) <= Position(k)
                   /\ active_provider[2] = ProviderName[active_provider[1]]
                   /\ active_provider[3] = clients[active_provider[1]]

\* C9 witness: no explicit key, deepseek and proxyapi are the constructible
\* providers, and deepseek is active.
C9_Witness ==
    /\ phase = "running"
    /\ AI_PROVIDER = None
    /\ Built = {"deepseek", "proxyapi"}
    /\ active_provider[1] = "deepseek"

\* C10: once start-up has selected the active provider, no step changes it,
\* and every generation request goes to its client.
C10_ActiveProviderFixed ==
    [][phase = "running"
        => /\ active_provider' = active_provider
           /\ \A i \in 1..Len(requests') :
                requests'[i].client = active_provider[3]
      ]_vars

\* C10 witness: two generations in a row have failed under a provider other
\* than the first of the priority order, and both apologies were delivered.
C10_Witness ==
    /\ phase = "running"
    /\ active_provider[1] = "genapi"
    /\ Len(requests) = 2
    /\ Len(sent) = 2
    /\ \A i \in 1..2 : sent[i].kind = "apology"

----------------------------------------------------------------------------
(* Properties of _extract_text_from_output (ExtractSpec) *)

ExtractDone == extracted.t # "pending"

\* field k of the mapping raw holds a string that is not blank
HoldsText(k) ==
    /\ k \in DOMAIN raw.v
    /\ raw.v[k].t = "str"
    /\ str_strip(raw.v[k].v) # <<>>

\* raw is a list of mappings
ListOfMappings ==
    /\ raw.t = "list"
    /\ raw.v # <<>>
    /\ \A j \in 1..Len(raw.v) : raw.v[j].t = "dict"

\* the mappings of the list raw that yield text, each taken on its own
Yielding ==
    {j \in 1..Len(raw.v) :
        first_pass_item(raw.v[j]).ret /\ first_pass_item(raw.v[j]).val.t = "str"}

\* C18: for every input tree _extract_text_from_output returns a text or
\* None, raises nothing, and leaves its argument as it was.
C18_ExtractTotal ==
    [][(extracted.t = "pending" /\ extracted'.t # "pending")
        => /\ extracted'.t \in {"str", "null"}
           /\ extracted'.t = "str" => extracted'.v # <<>>
           /\ raw' = raw
      ]_vars

\* C18 witness: extraction has returned None for a mapping whose choices
\* list holds a non-mapping while its content list holds a non-mapping part.
C18_Witness ==
    /\ ExtractDone
    /\ extracted.t = "null"
    /\ raw.t = "dict"
    /\ "choices" \in DOMAIN raw.v
    /\ raw.v["choices"].t = "list"
    /\ raw.v["choices"].v # <<>>
    /\ raw.v["choices"].v[1].t = "str"
    /\ "content" \in DOMAIN raw.v
    /\ raw.v["content"].t = "list"
    /\ raw.v["content"].v[1].t = "str"

\* C19: for a mapping in which text, content or message holds a non-blank
\* string, extraction returns a text, whatever the other two fields hold.
C19_DirectStringFieldWins ==
    (ExtractDone /\ raw.t = "dict"
        /\ \E k \in {"text", "content", "message"} : HoldsText(k))
    => extracted.t = "str"

\* C20: for a list of mappings, extraction returns the text of the first
\* mapping of the list that yields text; mappings before it that yield none
\* (a blank string included) do not end the scan.
C20_FirstYieldingMapping ==
    (ExtractDone /\ ListOfMappings /\ Yielding # {})
    => LET j == CHOOSE x \in Yielding : \A y \in Yielding : x <= y
       IN  /\ extracted.t = "str"
           /\ extracted.v = first_pass_item(raw.v[j]).val.v

\* s without its leading and trailing blanks, by positions
Trimmed(s) ==
    LET keep == {i \in 1..Len(s) : s[i] # " "}
        lo == CHOOSE i \in keep : \A j \in keep : i <= j
        hi == CHOOSE i \in keep : \A j \in keep : j <= i
    IN  IF keep = {} THEN <<>> ELSE SubSeq(s, lo, hi)

\* the elements of a list as texts with one blank between neighbours
RECURSIVE Joined(_)
Joined(items) ==
    IF Len(items) = 0 THEN <<>>
    ELSE IF Len(items) = 1 THEN PyStr(items[1])
    ELSE Joined(SubSeq(items, 1, Len(items) - 1)) \o <<" ">>
            \o PyStr(items[Len(items)])

\* raw is a list whose first element is a string
StringList == raw.t = "list" /\ raw.v # <<>> /\ raw.v[1].t = "str"

\* raw is null, an empty list, an empty mapping, a number or a boolean
NoTextShape ==
    \/ raw.t \in {"null", "num", "bool"}
    \/ raw.t = "list" /\ raw.v = <<>>
    \/ raw.t = "dict" /\ DOMAIN raw.v = {}

\* extraction returned the text s, or none when s is empty
ExtractedTextOrNone(s) ==
    IF s = <<>> THEN extracted.t = "null"
    ELSE extracted.t = "str" /\ extracted.v = s

\* C21 as stated: a string yields the trimmed string, or none when that is
\* empty; a list whose first element is a string yields all elements joined
\* by single blanks and then trimmed; null, an empty list, an empty mapping,
\* a number or a boolean yield none.
C21_StringAndStringList ==
    ExtractDone
    => /\ raw.t = "str" => ExtractedTextOrNone(Trimmed(raw.v))
       /\ StringList
            => extracted.t = "str" /\ extracted.v = Trimmed(Joined(raw.v))
       /\ NoTextShape => extracted.t = "null"

\* C21 amended: as above, but a list whose first element is a string yields
\* none when the joined elements are empty after trimming.
C21_StringListOrNone ==
    ExtractDone
    => /\ raw.t = "str" => ExtractedTextOrNone(Trimmed(raw.v))
       /\ StringList => ExtractedTextOrNone(Trimmed(Joined(raw.v)))
       /\ NoTextShape => extracted.t = "null"

C21_Witness ==
    /\ ExtractDone
    /\ StringList
    /\ Len(raw.v) = 2
    /\ Trimmed(Joined(raw.v)) = <<>>
    /\ extracted.t = "null"

----------------------------------------------------------------------------
(* Properties of one generate_response call (CallSpec).                    *)

CallDone == cpc = "done"

\* the generation request was answered below 400 with a JSON object
SubmitDecoded ==
    /\ callee = "GenAPIClient"
    /\ submitResp.t = "http"
    /\ submitResp.code < 400
    /\ submitResp.body.t = "dict"

SubmitStatus == DictGet(submitResp.body, "status")

SubmitHasRequestId == DictGet(submitResp.body, "request_id").t # "null"

\* the call is inside _poll_until_done
InPollPhase == cpc \in {"sleep0", "check", "get", "sleep"}

\* C11: whatever the outbound calls of any client do, generate_response
\* returns a text or the absence-of-result value and never raises.
C11_TextOrNone ==
    CallDone => result.t \in {"str", "null"}

\* C12: one call issues exactly one generation request (the submit POST or
\* the single call of a sync client); nothing is reissued after a failure and
\* only the status GET of the async job client is repeated.
C12_OneGenerationRequest ==
    /\ cpc = "start" => nPost = 0 /\ nGet = 0
    /\ cpc # "start" => nPost = 1
    /\ callee # "GenAPIClient" => nGet = 0

C12_Witness ==
    CallDone /\ callee = "GenAPIClient" /\ nPost = 1 /\ nGet >= 2
        /\ result.t = "null"

\* C13 as stated: a status GET is issued only after a submit response below
\* 400 whose status is starting or processing and that carries a request_id;
\* every other submit response ends the call without a status GET.
C13_PollOnlyAfterStartingOrProcessing ==
    (InPollPhase \/ nGet > 0)
    => /\ SubmitDecoded
       /\ IsWord(SubmitStatus, StartingWord) \/ IsWord(SubmitStatus, ProcessingWord)
       /\ SubmitHasRequestId

\* C13 amended: a status GET is issued only after a submit response below 400
\* that decodes to an object whose status is neither success nor failed
\* (starting, processing, any other value, or no status at all) and whose
\* request_id is not null; every other submit response ends the call without
\* a status GET.
C13_PollOnlyAfterUnfinishedJob ==
    /\ (InPollPhase \/ nGet > 0)
       => /\ SubmitDecoded
          /\ ~IsWord(SubmitStatus, SuccessWord)
          /\ ~IsWord(SubmitStatus, FailedWord)
          /\ SubmitHasRequestId
    /\ (callee = "GenAPIClient" /\ submitResp.t # "pending"
            /\ ~(/\ SubmitDecoded
                 /\ ~IsWord(SubmitStatus, SuccessWord)
                 /\ ~IsWord(SubmitStatus, FailedWord)
                 /\ SubmitHasRequestId))
       => CallDone /\ nGet = 0

C13_Witness ==
    /\ nGet > 0
    /\ SubmitDecoded
    /\ IsWord(SubmitStatus, QueuedWord)
    /\ result.t = "str"

\* a step that performs one status GET
GetStep == cpc = "get" /\ cpc' # "get"

\* a status response with HTTP 200 and status success
SuccessPoll(resp) ==
    /\ resp.t = "http"
    /\ resp.code = 200
    /\ resp.body.t = "dict"
    /\ IsWord(DictGet(resp.body, "status"), SuccessWord)

\* a status response after which the job is still running, or a failed GET
NonTerminalPoll(resp) ==
    \/ resp.t = "raise"
    \/ /\ resp.t = "http"
       /\ resp.code = 200
       /\ \/ resp.body.t # "dict"
          \/ /\ ~IsWord(DictGet(resp.body, "status"), SuccessWord)
             /\ ~IsWord(DictGet(resp.body, "status"), FailedWord)

FieldText(resp, k) == extract_text_from_output(DictGet(resp.body, k))

\* the text of the first of result, output, full_response, response that
\* yields text, the absence-of-result if none does
ExpectedText(resp) ==
    LET keys == <<"result", "output", "full_response", "response">>
        hits == {i \in 1..4 : FieldText(resp, keys[i]).t = "str"}
        first == CHOOSE i \in hits : \A j \in hits : i <= j
    IN  IF hits = {} THEN JNull ELSE FieldText(resp, keys[first])

\* C14: a status response with HTTP 200 and status success ends the call at
\* once; the result is the text of the first of the fields result, output,
\* full_response, response that yields text, and the absence-of-result if
\* none does.
C14_SuccessPollEndsCall ==
    [][(GetStep /\ SuccessPoll(lastResp'))
        => /\ cpc' = "done"
           /\ result'.t = ExpectedText(lastResp').t
           /\ result'.t = "str" => result'.v = ExpectedText(lastResp').v
           /\ nGet' = Count(nGet) ]_vars

C14_Witness ==
    /\ CallDone
    /\ SubmitDecoded
    /\ IsWord(SubmitStatus, ProcessingWord)
    /\ SuccessPoll(lastResp)
    /\ IsWord(DictGet(lastResp.body, "result"), <<" ">>)
    /\ IsWord(DictGet(lastResp.body, "full_response"), <<"c">>)
    /\ IsWord(DictGet(lastResp.body, "response"), <<"d">>)
    /\ IsWord(result, <<"c">>)

\* C15: every call eventually returns, whatever poll responses and transient
\* errors arrive; a call whose latest poll response was non-terminal ends
\* with the PollTimeout absence-of-result (unless a sleep itself raised).
C15_CallReturns ==
    /\ <>CallDone
    /\ [](( /\ CallDone
            /\ nGet > 0
            /\ NonTerminalPoll(lastResp)
            /\ logged # "exception")
          => (logged = "poll timeout" /\ result.t = "null"))

C15_Witness ==
    /\ CallDone
    /\ logged = "poll timeout"
    /\ nGet >= 2
    /\ lastResp.t = "http"
    /\ lastResp.body.t = "dict"
    /\ IsWord(DictGet(lastResp.body, "status"), ProcessingWord)

\* the call has entered _poll_until_done
PollEntered == InPollPhase \/ nGet > 0 \/ logged = "poll timeout"

\* C16 as stated: from entering the poll phase to returning, never more
\* than poll_max_wait passes, sleeps and slow status requests included.
C16_PollPhaseWithinMaxWait ==
    PollEntered => now - pollStart <= poll_max_wait

\* C16 amended: a status GET is started only while less than poll_max_wait
\* has passed since the end of the initial sleep; the poll phase as a whole
\* lasts at most poll_max_wait plus two sleeps of poll_interval plus the
\* duration of the last status request.
C16_NoGetStartedAfterDeadline ==
    PollEntered
    => /\ nGet > 0 => getStart < pollStart + poll_interval + poll_max_wait
       /\ now - pollStart <= poll_max_wait + 2 * poll_interval + MaxGetTime

C16_Witness ==
    /\ CallDone
    /\ logged = "poll timeout"
    /\ nGet > 0
    /\ now - pollStart > poll_max_wait + poll_interval

\* C17: a status GET that raises does not end the loop: the loop sleeps
\* poll_interval and checks the deadline again, and issues the next GET while
\* the deadline has not passed; a status response other than HTTP 200 ends
\* the call at once with the absence-of-result.
C17_PollErrorIsTransient ==
    [][ /\ (GetStep /\ lastResp'.t = "raise")
            => (cpc' = "sleep" /\ result'.t = "pending")
        /\ (GetStep /\ lastResp'.t = "http" /\ lastResp'.code # 200)
            => (cpc' = "done" /\ result'.t = "null")
        /\ (cpc = "sleep" /\ cpc' # "sleep" /\ logged' # "exception")
            => (cpc' = "check" /\ now' = now + poll_interval)
        /\ (cpc = "check" /\ now < deadline) => cpc' = "get" ]_vars

C17_Witness ==
    /\ CallDone
    /\ nErr >= 2
    /\ SuccessPoll(lastResp)
    /\ result.t = "str"

----------------------------------------------------------------------------
(* Properties of the start-up with no explicit key (Spec).                 *)

\* C28: OllamaClient is always constructed, so without an explicit key the
\* active provider is ollama whatever other clients exist, and the start-up
\* fails with NoProviderAvailable only when an explicit key is configured.
C28_OllamaAlwaysDefault ==
    /\ phase # "boot" => clients["ollama"] # None
    /\ (Started /\ AI_PROVIDER = None)
        => /\ startupError = None
           /\ active_provider # <<>>
           /\ active_provider[1] = "ollama"
    /\ startupError = "NoProviderAvailable" => AI_PROVIDER # None

C28_Witness ==
    /\ phase = "running"
    /\ AI_PROVIDER = None
    /\ apiKeys = CredentialKeys
    /\ Built = ProviderKeys
    /\ active_provider[1] = "ollama"

----------------------------------------------------------------------------
(* Properties of the handlers (DialogSpec).                                *)

UserMsg(t) == [role |-> "user", content |-> t]

AssistantMsg(t) == [role |-> "assistant", content |-> t]

\* a step in which task i starts handling an utterance and reaches the call
\* of generate_response
CallsProvider(i) == tasks[i].pc = "free" /\ tasks'[i].pc = "call"

\* a step in which the provider call of task i returns
Returns(i) == tasks[i].pc = "call" /\ tasks'[i].pc = "await"

\* what the provider call that has just returned gave back
JustReturned == returned'[Len(returned')].response

\* a step in which the answer awaited by task i is delivered
Delivers(i) == tasks[i].pc = "await" /\ sent' # sent /\ tasks'[i].pc = "free"

\* C22: the message list passed to the provider ends with the user's
\* utterance; when the provider returns a text t the user's context ends with
\* the user utterance followed by the assistant message t, and the text then
\* sent to the user is exactly t.
C22_SuccessfulExchange ==
    [][\A i \in 1..MaxTasks :
        /\ CallsProvider(i)
            => LET msgs == requests'[Len(requests')].messages
               IN  /\ Len(requests') = Len(requests) + 1
                   /\ requests'[Len(requests')].user = tasks'[i].user
                   /\ msgs # <<>>
                   /\ msgs[Len(msgs)] = UserMsg(tasks'[i].text)
        /\ (Returns(i) /\ Truthy(JustReturned))
            => LET ctx == contexts'[tasks[i].user]
               IN  /\ Len(ctx) >= 2
                   /\ ctx[Len(ctx) - 1] = UserMsg(tasks[i].text)
                   /\ ctx[Len(ctx)] = AssistantMsg(JustReturned)
                   /\ tasks'[i].kind = "reply"
                   /\ tasks'[i].text = JustReturned
        /\ (Delivers(i) /\ tasks[i].kind = "reply")
            => /\ sent' = Append(sent, [user |-> tasks[i].user,
                                        kind |-> "reply",
                                        text |-> tasks[i].text])
    ]_vars

C22_Witness ==
    /\ Len(history[Talker]) > BotMaxMessages
    /\ Len(sent) = 1
    /\ sent[1].kind = "reply"
    /\ sent[1].user = Talker
    /\ sent[1].text = "hello"
    /\ Len(returned) = 1
    /\ contexts[Talker][Len(contexts[Talker])] = AssistantMsg("hello")

\* C23: when the provider call returns no result, the handler appends nothing
\* to the context and answers with the one fixed apology text, which is what
\* the user then receives.
C23_ApologyOnAbsence ==
    [][\A i \in 1..MaxTasks :
        /\ (Returns(i) /\ JustReturned = None)
            => /\ contexts' = contexts
               /\ tasks'[i].kind = "apology"
               /\ tasks'[i].user = tasks[i].user
               /\ tasks'[i].text = ApologyText
        /\ (Delivers(i) /\ tasks[i].kind = "apology")
            => sent' = Append(sent, [user |-> tasks[i].user,
                                     kind |-> "apology",
                                     text |-> ApologyText])
    ]_vars

C23_Witness ==
    /\ Len(returned) = 1
    /\ returned[1].response = None
    /\ Len(sent) = 1
    /\ sent[1].kind = "apology"
    /\ sent[1].text = ApologyText
    /\ contexts[returned[1].user][Len(contexts[returned[1].user])].role = "user"

\* C24: the handling of one utterance (append of the user message, provider
\* call, append of the reply, sending the reply) completes before any step of
\* the handling of the next utterance runs: for one user, no later utterance
\* has been appended to the context while the reply to an earlier one is
\* still being sent.
C24_ReplyBeforeNextUtterance ==
    \A i, j \in 1..MaxTasks :
        (/\ tasks[i].pc = "await"
         /\ tasks[i].kind = "reply")
        => ~(/\ tasks[j].pc = "call"
             /\ tasks[j].user = tasks[i].user)

\* C25: while a handler is between its append of the user utterance and its
\* append of the reply, nothing else runs: no other task moves, no handler
\* starts, nothing is sent, and the context changes only by that handler's
\* own append; other handlers run only while every started handler is
\* suspended at an awaited answer.
C25_NoContextOpInsideHandler ==
    [][\A i \in 1..MaxTasks :
        tasks[i].pc = "call"
        => /\ \A j \in 1..MaxTasks \ {i} : tasks'[j].pc = tasks[j].pc
           /\ tasks'[i].pc = "await"
           /\ nUpdates' = nUpdates
           /\ sent' = sent
           /\ requests' = requests
           /\ \A u \in Users \ {tasks[i].user} :
                /\ (u \in DOMAIN contexts') = (u \in DOMAIN contexts)
                /\ Entry(contexts', u) = Entry(contexts, u)
           /\ \/ contexts' = contexts
              \/ contexts'[tasks[i].user] =
                    LastN(Append(contexts[tasks[i].user],
                                 AssistantMsg(JustReturned)), BotMaxMessages)
    ]_vars

C25_Witness ==
    \E i, j \in 1..MaxTasks :
        /\ tasks[i].pc = "call"
        /\ tasks[j].pc = "await"
        /\ tasks[j].kind = "reply"
        /\ tasks[j].user = tasks[i].user

\* C26: in the dispatcher only user and assistant messages are appended, so
\* every user's context has no system message, holds at most 20 messages, and
\* equals the last min(k, 20) of the k messages appended for that user since
\* the last clear, in append order.
C26_ContextIsRecentWindow ==
    \A u \in Users :
        /\ \A k \in 1..Len(Entry(contexts, u)) :
              Entry(contexts, u)[k].role \in {"user", "assistant"}
        /\ Len(Entry(contexts, u)) <= BotMaxMessages
        /\ Entry(contexts, u) =
              LastN(history[u], Min(Len(history[u]), BotMaxMessages))

C26_Witness ==
    /\ nUpdates > 0
    /\ Len(history[Talker]) > BotMaxMessages
    /\ Len(Entry(contexts, Talker)) = BotMaxMessages
    /\ Entry(contexts, Talker)[BotMaxMessages].role = "assistant"
    /\ \A i \in 1..MaxTasks : tasks[i].pc = "free"

\* C27: a failed generation is not rolled back: the utterance is appended
\* (subject to eviction) before the call, a call that returns nothing leaves
\* the context as it is, ending with the user message, and the next
\* generation request is the context with the unanswered utterance in it.
C27_FailureNotRolledBack ==
    [][\A i \in 1..MaxTasks :
        /\ CallsProvider(i)
           => LET u == tasks'[i].user
              IN  /\ contexts'[u] =
                        LastN(Append(Entry(contexts, u), UserMsg(tasks'[i].text)),
                              BotMaxMessages)
                  /\ requests' # requests
                     => requests'[Len(requests')].messages = contexts'[u]
        /\ (Returns(i) /\ ~Truthy(JustReturned))
           => /\ contexts' = contexts
              /\ contexts'[tasks[i].user][Len(contexts'[tasks[i].user])] =
                    UserMsg(tasks[i].text)
    ]_vars

C27_Witness ==
    /\ Len(returned) > 0
    /\ ~Truthy(returned[1].response)
    /\ Len(requests) > 1
    /\ requests[2].user = returned[1].user
    /\ LET msgs == requests[2].messages
       IN  /\ Len(msgs) > 1
           /\ msgs[Len(msgs)].role = "user"
           /\ msgs[Len(msgs) - 1].role = "user"

\* a value GenAPIClient.generate_response may return: none, or a text that is
\* neither empty nor blank at either end
TextOrAbsent(x) ==
    \/ x.t = "null"
    \/ x.t = "str" /\ x.v # <<>> /\ Trimmed(x.v) = x.v

\* whatever the submit POST or a status GET answers, a call of the async job
\* client that ends there returns none or a non-blank text
GenAPINeverBlank ==
    /\ \A r \in SubmitResponses :
          after_submit(r).ends => TextOrAbsent(after_submit(r).val)
    /\ \A r \in PollResponses :
          after_poll(r).ends => TextOrAbsent(after_poll(r).val)

\* C29: every assistant message in any user's context and every text sent
\* to a user as a generation result is non-empty; an empty or absent provider
\* result is never stored or sent as a reply, and the async job client never
\* returns an empty or whitespace-only text.
C29_RepliesNonEmpty ==
    /\ \A u \in Users :
          \A k \in 1..Len(Entry(contexts, u)) :
              Entry(contexts, u)[k].role = "assistant"
              => /\ Entry(contexts, u)[k].content # ""
                 /\ Entry(contexts, u)[k].content # None
    /\ \A k \in 1..Len(sent) :
          sent[k].kind = "reply" => sent[k].text # "" /\ sent[k].text # None
    /\ GenAPINeverBlank

C29_Witness ==
    /\ \E k \in 1..Len(returned) : returned[k].response = ""
    /\ \E k \in 1..Len(sent) : sent[k].kind = "apology"
    /\ \E k \in 1..Len(sent) : sent[k].kind = "reply"
    /\ \A i \in 1..MaxTasks : tasks[i].pc = "free"

====
